---- MODULE Spec2Model ----
(***************************************************************************)
(* DataTable (src/src/components/ui/DataTable.tsx): the sort state, the    *)
(* comparison sort behind sortedData, the row-identity resolver and the    *)
(* row-selection set, as a state machine with one action per handler.      *)
(* InputField (src/src/components/ui/InputField.tsx): the value and the     *)
(* password visibility of the input, in a specification of its own.        *)
(*                                                                         *)
(* JavaScript values are records [t, n, s]: t is the typeof tag            *)
(* ("number", "string", "null", "undefined"), n the numeric value and s    *)
(* the string's characters.  A character is its collation rank: the        *)
(* digits '0'..'9' are 0..9 and the letters 'a', 'b', 'c' are 10, 11, 12,  *)
(* so that localeCompare is the lexicographic comparison of the ranks.     *)
(***************************************************************************)
EXTENDS Integers, Sequences, FiniteSets

\* data: the row collection (prop); sortConfig, selectedRows: the component's
\* state; sortedData: the memoized sorted copy; calls: the argument lists the
\* latest handler passed to onRowSelect, in order.
VARIABLES data, sortConfig, sortedData, selectedRows, calls

\* History, recorded by the traced and the logged specifications only.  last:
\* the latest handler and its argument.  streak: the sortable column activated
\* latest, how many times in a row (n), and the sort state the row of
\* activations started from.  before: selectedRows as the latest handler
\* found it, and the handler that ran before it.
VARIABLES last, streak, before

\* InputField.  props: the props of the latest render; showPassword,
\* internalValue: the component's state; emitted: the calls the latest event
\* made to the caller's callbacks.
VARIABLES props, showPassword, internalValue, emitted

inputVars == <<props, showPassword, internalValue, emitted>>

\* The caller's state in the WithSelection story: the list onRowSelect
\* delivered latest.
VARIABLE selectedUsers

vars == <<data, sortConfig, sortedData, selectedRows, calls, last, streak, before,
          props, showPassword, internalValue, emitted, selectedUsers>>

\* Longest row collection handed to the table.
MaxRows == 3

\* Consecutive activations of one column that are counted exactly; further
\* ones are counted modulo the length of the cycle.
MaxStreak == 4

(***************************************************************************)
(* Values                                                                  *)
(***************************************************************************)
Undefined == [t |-> "undefined", n |-> 0, s |-> <<>>]

Null == [t |-> "null", n |-> 0, s |-> <<>>]

Num(k) == [t |-> "number", n |-> k, s |-> <<>>]

Str(cs) == [t |-> "string", n |-> 0, s |-> cs]

\* a === b: same type and same value.
StrictEquals(a, b) == a = b

\* v == null: true of null and of undefined (and of a missing field).
IsNullish(v) == v.t \in {"null", "undefined"}

\* Truthiness as `||` tests it: undefined, null, 0 and "" are falsy.
Truthy(v) ==
    /\ ~IsNullish(v)
    /\ (v.t = "number" => v.n # 0)
    /\ (v.t = "string" => v.s # <<>>)

\* The decimal digits of a non-negative integer, most significant first.
RECURSIVE Digits(_)
Digits(k) == IF k < 10 THEN <<k>> ELSE Digits(k \div 10) \o <<k % 10>>

\* String(v) for a number or a string.
StringOf(v) == IF v.t = "number" THEN Digits(v.n) ELSE v.s

\* s.localeCompare(u): -1, 0 or 1 by the first differing character, a proper
\* prefix first.
RECURSIVE LocaleCompare(_, _)
LocaleCompare(s, u) ==
    IF s = <<>> /\ u = <<>> THEN 0
    ELSE IF s = <<>> THEN -1
    ELSE IF u = <<>> THEN 1
    ELSE IF Head(s) < Head(u) THEN -1
    ELSE IF Head(s) > Head(u) THEN 1
    ELSE LocaleCompare(Tail(s), Tail(u))

\* No InputField is in use: the state the table's specifications keep.
NoInputField ==
    /\ props = [type |-> "text", value |-> Undefined, disabled |-> FALSE,
                loading |-> FALSE, clearable |-> FALSE, onChange |-> FALSE]
    /\ showPassword = FALSE
    /\ internalValue = Str(<<>>)
    /\ emitted = <<>>

(***************************************************************************)
(* Props: the column descriptors and the row collections                   *)
(***************************************************************************)
\* sortable is "true", "false" or "absent" (the optional field left out).
columns ==
    << [key |-> "id", sortable |-> "true"],
       [key |-> "name", sortable |-> "true"],
       [key |-> "email", sortable |-> "false"],
       [key |-> "role", sortable |-> "absent"] >>

ColumnKeys == {columns[i].key : i \in 1..Len(columns)}

\* A key handleSort can be handed that no column descriptor carries.
UnknownKey == "avatar"

\* rowKey = 'id', the default of the prop.
rowKey == "id"

\* row[key]: undefined when the row has no such field.
Field(row, key) == IF key \in DOMAIN row THEN row[key] ELSE Undefined

\* Values of the name column: the string "2", the numbers 2 and 10, null and
\* undefined (a row without the field).
NameValues == {Str(<<2>>), Num(2), Num(10), Null, Undefined}

\* Values of the id field: 1, 2, the falsy 0 and "", and a row without id.
IdValues == {Num(1), Num(2), Num(0), Str(<<>>), Undefined}

\* Bob, Amy, Cid, repeated.
ExampleNames == <<Str(<<11>>), Str(<<10>>), Str(<<12>>)>>

NameAt(i) == ExampleNames[((i - 1) % Len(ExampleNames)) + 1]

\* Rows with ids 1..n and any values in the sorted column.
SortCollections(n) ==
    { [i \in 1..n |-> [id |-> Num(i), name |-> f[i]]] : f \in [1..n -> NameValues] }

\* Rows named Bob, Amy, Cid, ... with any values in the identity field.
IdentityCollections(n) ==
    { [i \in 1..n |-> [id |-> g[i], name |-> NameAt(i)]] : g \in [1..n -> IdValues] }

RowCollections ==
    UNION { SortCollections(n) \cup IdentityCollections(n) : n \in 0..MaxRows }

\* Array.prototype.sort is stable; with a comparator that is not a consistent
\* order the result is the engine's choice: TimSort or a merge sort.
Engines == {"timsort", "mergesort"}

NoSort == [key |-> "none", direction |-> "none"]

(***************************************************************************)
(* sortedData                                                              *)
(***************************************************************************)
\* As Compare, with the descending negation applied to every result.
Compare_NegateAll(a, b, cfg) ==
    LET aValue == Field(a, cfg.key)
        bValue == Field(b, cfg.key)
        comparison ==
            IF StrictEquals(aValue, bValue) THEN 0
            ELSE IF IsNullish(aValue) THEN 1
            ELSE IF IsNullish(bValue) THEN -1
            ELSE IF aValue.t = "string" /\ bValue.t = "string"
            THEN LocaleCompare(aValue.s, bValue.s)
            ELSE IF aValue.t = "number" /\ bValue.t = "number"
            THEN aValue.n - bValue.n
            ELSE LocaleCompare(StringOf(aValue), StringOf(bValue))
    IN  IF cfg.direction = "desc" THEN 0 - comparison ELSE comparison

\* The comparator with the operands of the numeric subtraction swapped.
Compare_SwappedDifference(a, b, cfg) ==
    LET aValue == Field(a, cfg.key)
        bValue == Field(b, cfg.key)
        comparison ==
            IF aValue.t = "string" /\ bValue.t = "string"
            THEN LocaleCompare(aValue.s, bValue.s)
            ELSE IF aValue.t = "number" /\ bValue.t = "number"
            THEN bValue.n - aValue.n
            ELSE LocaleCompare(StringOf(aValue), StringOf(bValue))
    IN  IF StrictEquals(aValue, bValue) THEN 0
        ELSE IF IsNullish(aValue) THEN 1
        ELSE IF IsNullish(bValue) THEN -1
        ELSE IF cfg.direction = "desc" THEN 0 - comparison ELSE comparison

\* The comparator handed to sort, for the active sort configuration.
Compare(a, b, cfg) ==
    LET aValue == Field(a, cfg.key)
        bValue == Field(b, cfg.key)
        comparison ==
            IF aValue.t = "string" /\ bValue.t = "string"
            THEN LocaleCompare(aValue.s, bValue.s)
            ELSE IF aValue.t = "number" /\ bValue.t = "number"
            THEN aValue.n - bValue.n
            ELSE LocaleCompare(StringOf(aValue), StringOf(bValue))
    IN  IF StrictEquals(aValue, bValue) THEN 0
        ELSE IF IsNullish(aValue) THEN 1
        ELSE IF IsNullish(bValue) THEN -1
        ELSE IF cfg.direction = "desc" THEN 0 - comparison ELSE comparison

Reverse(s) == [i \in 1..Len(s) |-> s[Len(s) + 1 - i]]

\* TimSort's CountAndMakeRun: the length of the run that starts the array,
\* strictly descending or non-descending; j is the next candidate's position.
RECURSIVE RunLength(_, _, _, _)
RunLength(arr, cfg, isDescending, j) ==
    IF j > Len(arr) THEN j - 1
    ELSE LET order == Compare(arr[j], arr[j - 1], cfg)
         IN  IF (isDescending /\ order >= 0) \/ (~isDescending /\ order < 0)
             THEN j - 1
             ELSE RunLength(arr, cfg, isDescending, j + 1)

\* Binary search of the insertion point of pivot in arr[left+1 .. right]
\* (left, right are 0-based bounds, as in the engine).
RECURSIVE InsertionPoint(_, _, _, _, _)
InsertionPoint(arr, cfg, pivot, left, right) ==
    IF left >= right THEN left
    ELSE LET mid == left + ((right - left) \div 2)
         IN  IF Compare(pivot, arr[mid + 1], cfg) < 0
             THEN InsertionPoint(arr, cfg, pivot, left, mid)
             ELSE InsertionPoint(arr, cfg, pivot, mid + 1, right)

\* Binary insertion sort of arr, whose first `start` elements are sorted.
RECURSIVE BinaryInsertionSort(_, _, _)
BinaryInsertionSort(arr, cfg, start) ==
    IF start >= Len(arr) THEN arr
    ELSE LET pivot == arr[start + 1]
             left == InsertionPoint(arr, cfg, pivot, 0, start)
             placed == SubSeq(arr, 1, left) \o <<pivot>>
                       \o SubSeq(arr, left + 1, start)
                       \o SubSeq(arr, start + 2, Len(arr))
         IN  BinaryInsertionSort(placed, cfg, start + 1)

\* TimSort on an array shorter than its minimal merge length: the initial run
\* (reversed when descending), then binary insertion of the rest.
TimSort(arr, cfg) ==
    IF Len(arr) < 2 THEN arr
    ELSE LET isDescending == Compare(arr[2], arr[1], cfg) < 0
             run == RunLength(arr, cfg, isDescending, 3)
             made == IF isDescending
                     THEN Reverse(SubSeq(arr, 1, run)) \o SubSeq(arr, run + 1, Len(arr))
                     ELSE arr
         IN  BinaryInsertionSort(made, cfg, run)

\* Stable merge of two sorted runs: the right head goes first only when it
\* compares below the left head.
RECURSIVE Merge(_, _, _)
Merge(left, right, cfg) ==
    IF left = <<>> THEN right
    ELSE IF right = <<>> THEN left
    ELSE IF Compare(Head(right), Head(left), cfg) < 0
    THEN <<Head(right)>> \o Merge(left, Tail(right), cfg)
    ELSE <<Head(left)>> \o Merge(Tail(left), right, cfg)

\* One bottom-up pass: merges the adjacent runs of the given width.
RECURSIVE MergePass(_, _, _)
MergePass(arr, cfg, width) ==
    IF Len(arr) <= width THEN arr
    ELSE LET rightEnd == IF Len(arr) < 2 * width THEN Len(arr) ELSE 2 * width
         IN  Merge(SubSeq(arr, 1, width), SubSeq(arr, width + 1, rightEnd), cfg)
             \o MergePass(SubSeq(arr, rightEnd + 1, Len(arr)), cfg, width)

\* Bottom-up merge sort: run widths 1, 2, 4, ...
RECURSIVE MergeSort(_, _, _)
MergeSort(arr, cfg, width) ==
    IF width >= Len(arr) THEN arr
    ELSE MergeSort(MergePass(arr, cfg, width), cfg, 2 * width)

\* [...rows].sort(comparator) under the given engine.
ArraySort(eng, rows, cfg) ==
    IF eng = "timsort" THEN TimSort(rows, cfg) ELSE MergeSort(rows, cfg, 1)

\* As SortOutcomes, sorting by name when there is no sort configuration.
SortOutcomes_DefaultSort(rows, cfg) ==
    {ArraySort(eng, rows, IF cfg = NoSort THEN [key |-> "name", direction |-> "asc"] ELSE cfg) :
        eng \in Engines}

\* As SortOutcomes, leaving out the rows that have no value to sort by.
SortOutcomes_DropsNullish(rows, cfg) ==
    IF cfg = NoSort THEN {rows}
    ELSE {ArraySort(eng, SelectSeq(rows, LAMBDA r : ~IsNullish(Field(r, cfg.key))), cfg) :
            eng \in Engines}

\* The values useMemo can compute for sortedData: the rows themselves without
\* a sort configuration, else the sorted copy, one per engine.
SortOutcomes(rows, cfg) ==
    IF cfg = NoSort THEN {rows} ELSE {ArraySort(eng, rows, cfg) : eng \in Engines}

(***************************************************************************)
(* Row identity and the derived selection outputs                          *)
(***************************************************************************)
\* getRowKey(row, index): row[rowKey] || index, index counted from 0.
\* Caller-supplied rowKey functions: (row) => row.id and (row, index) => index.
RowKeyFunctions == {"fn:id", "fn:index"}

\* rowKey(row, index) for a rowKey that is a function.
ApplyRowKey(fn, row, index) == IF fn = "fn:id" THEN Field(row, "id") ELSE Num(index)

\* A resolver that falls back to the index for a function's falsy result too.
getRowKeyWith_FallbackAlways(rk, row, index) ==
    LET v == IF rk \in RowKeyFunctions THEN ApplyRowKey(rk, row, index) ELSE Field(row, rk)
    IN  IF Truthy(v) THEN v ELSE Num(index)

\* getRowKey for the rowKey prop rk, a function or a field name.
getRowKeyWith(rk, row, index) ==
    IF rk \in RowKeyFunctions THEN ApplyRowKey(rk, row, index)
    ELSE IF Truthy(Field(row, rk)) THEN Field(row, rk) ELSE Num(index)

getRowKey(row, index) == getRowKeyWith(rowKey, row, index)

\* The key of the row displayed at (1-based) position i of a row list.
KeyAt(rows, i) == getRowKey(rows[i], i - 1)

RECURSIVE FilterSelected_Reversed(_, _, _)
\* The filter collecting the rows it keeps last to first.
FilterSelected_Reversed(rows, keys, i) ==
    IF i > Len(rows) THEN <<>>
    ELSE FilterSelected_Reversed(rows, keys, i + 1)
         \o (IF KeyAt(rows, i) \in keys THEN <<rows[i]>> ELSE <<>>)

RECURSIVE FilterSelected(_, _, _)
\* rows.filter((row, index) => keys.has(getRowKey(row, index))), from position i.
FilterSelected(rows, keys, i) ==
    IF i > Len(rows) THEN <<>>
    ELSE (IF KeyAt(rows, i) \in keys THEN <<rows[i]>> ELSE <<>>)
         \o FilterSelected(rows, keys, i + 1)

\* isSelected of the row displayed at position i.
isSelected(i) == KeyAt(sortedData, i) \in selectedRows

isAllSelected ==
    Cardinality(selectedRows) > 0 /\ Cardinality(selectedRows) = Len(sortedData)

\* A header state that is partial whenever anything is selected.
isPartiallySelected_AnySelected == Cardinality(selectedRows) > 0

isPartiallySelected ==
    Cardinality(selectedRows) > 0 /\ Cardinality(selectedRows) < Len(sortedData)

(***************************************************************************)
(* Handlers                                                                *)
(***************************************************************************)
Init ==
    /\ data \in RowCollections
    /\ sortConfig = NoSort
    /\ sortedData \in SortOutcomes(data, sortConfig)
    /\ selectedRows = {}
    /\ calls = <<>>
    /\ last = [op |-> "none", arg |-> "none"]
    /\ streak = [key |-> "none", n |-> 0, from |-> NoSort]
    /\ before = [selectedRows |-> {}, op |-> "none"]
    /\ NoInputField
    /\ selectedUsers = <<>>

\* As IsSortable, with a column that leaves sortable out taken as sortable.
IsSortable_DefaultTrue(columnKey) ==
    \E i \in 1..Len(columns) :
        /\ columns[i].key = columnKey
        /\ columns[i].sortable # "false"

\* columns.find(col => col.key === columnKey)?.sortable is truthy.
IsSortable(columnKey) ==
    \E i \in 1..Len(columns) :
        /\ columns[i].key = columnKey
        /\ \A j \in 1..(i - 1) : columns[j].key # columnKey
        /\ columns[i].sortable = "true"

\* As NextSortConfig, toggling between the two directions without a reset.
NextSortConfig_Toggle(current, columnKey) ==
    IF current = NoSort \/ current.key # columnKey
    THEN [key |-> columnKey, direction |-> "asc"]
    ELSE IF current.direction = "asc"
    THEN [key |-> columnKey, direction |-> "desc"]
    ELSE [key |-> columnKey, direction |-> "asc"]

\* As NextSortConfig, keeping the direction when the column changes.
NextSortConfig_KeepDirection(current, columnKey) ==
    IF current = NoSort
    THEN [key |-> columnKey, direction |-> "asc"]
    ELSE IF current.key # columnKey
    THEN [key |-> columnKey, direction |-> current.direction]
    ELSE IF current.direction = "asc"
    THEN [key |-> columnKey, direction |-> "desc"]
    ELSE NoSort

\* The updater handed to setSortConfig.
NextSortConfig(current, columnKey) ==
    IF current = NoSort \/ current.key # columnKey
    THEN [key |-> columnKey, direction |-> "asc"]
    ELSE IF current.direction = "asc"
    THEN [key |-> columnKey, direction |-> "desc"]
    ELSE NoSort

\* The early return leaves the state alone; otherwise the new sort
\* configuration makes useMemo compute sortedData again.
\* A sort handler that also empties the selection when it sorts.
handleSort_ResetsSelection(columnKey) ==
    /\ IF IsSortable(columnKey)
       THEN /\ sortConfig' = NextSortConfig(sortConfig, columnKey)
            /\ sortedData' \in SortOutcomes(data, sortConfig')
            /\ selectedRows' = {}
       ELSE UNCHANGED <<sortConfig, sortedData, selectedRows>>
    /\ calls' = <<>>
    /\ UNCHANGED data

\* A sort handler that sorts the caller's array in place.
handleSort_InPlace(columnKey) ==
    /\ IF IsSortable(columnKey)
       THEN /\ sortConfig' = NextSortConfig(sortConfig, columnKey)
            /\ sortedData' \in SortOutcomes(data, sortConfig')
            /\ data' = sortedData'
       ELSE UNCHANGED <<sortConfig, sortedData, data>>
    /\ calls' = <<>>
    /\ UNCHANGED selectedRows

handleSort(columnKey) ==
    /\ IF IsSortable(columnKey)
       THEN /\ sortConfig' = NextSortConfig(sortConfig, columnKey)
            /\ sortedData' \in SortOutcomes(data, sortConfig')
       ELSE UNCHANGED <<sortConfig, sortedData>>
    /\ calls' = <<>>
    /\ UNCHANGED <<data, selectedRows>>

\* A row handler that flips the key's membership whatever the checkbox says.
handleRowSelection_Flip(key, checked) ==
    LET newSelectedRows == IF key \in selectedRows THEN selectedRows \ {key}
                                                   ELSE selectedRows \cup {key}
    IN  /\ selectedRows' = newSelectedRows
        /\ calls' = <<FilterSelected(sortedData, newSelectedRows, 1)>>
        /\ UNCHANGED <<data, sortConfig, sortedData>>

handleRowSelection(key, checked) ==
    LET newSelectedRows == IF checked THEN selectedRows \cup {key}
                           ELSE selectedRows \ {key}
    IN  /\ selectedRows' = newSelectedRows
        /\ calls' = <<FilterSelected(sortedData, newSelectedRows, 1)>>
        /\ UNCHANGED <<data, sortConfig, sortedData>>

\* A select-all that adds the displayed keys to the keys already held.
handleSelectAll_KeepsOld(checked) ==
    /\ IF checked
       THEN /\ selectedRows' = selectedRows \cup {KeyAt(sortedData, i) : i \in 1..Len(sortedData)}
            /\ calls' = <<sortedData>>
       ELSE /\ selectedRows' = {}
            /\ calls' = << <<>> >>
    /\ UNCHANGED <<data, sortConfig, sortedData>>

\* A select-all that hands the caller's rows, not the displayed ones, over.
handleSelectAll_DeliversData(checked) ==
    /\ IF checked
       THEN /\ selectedRows' = {KeyAt(sortedData, i) : i \in 1..Len(sortedData)}
            /\ calls' = <<data>>
       ELSE /\ selectedRows' = {}
            /\ calls' = << <<>> >>
    /\ UNCHANGED <<data, sortConfig, sortedData>>

\* A select-all that takes the keys from the caller's rows in their order.
handleSelectAll_KeysOfData(checked) ==
    /\ IF checked
       THEN /\ selectedRows' = {KeyAt(data, i) : i \in 1..Len(data)}
            /\ calls' = <<sortedData>>
       ELSE /\ selectedRows' = {}
            /\ calls' = << <<>> >>
    /\ UNCHANGED <<data, sortConfig, sortedData>>

handleSelectAll(checked) ==
    /\ IF checked
       THEN /\ selectedRows' = {KeyAt(sortedData, i) : i \in 1..Len(sortedData)}
            /\ calls' = <<sortedData>>
       ELSE /\ selectedRows' = {}
            /\ calls' = << <<>> >>
    /\ UNCHANGED <<data, sortConfig, sortedData>>

NoHistory == <<last, streak, before>>

\* A click or key press on a column header.
ActivateColumn ==
    \E columnKey \in ColumnKeys \cup {UnknownKey} :
        handleSort(columnKey) /\ UNCHANGED <<NoHistory, inputVars, selectedUsers>>

\* A click on the checkbox of a displayed row.
ToggleRow ==
    \E i \in 1..Len(sortedData), checked \in BOOLEAN :
        handleRowSelection(KeyAt(sortedData, i), checked) /\ UNCHANGED <<NoHistory, inputVars, selectedUsers>>

\* A click on the header checkbox.
ToggleAll == \E checked \in BOOLEAN : handleSelectAll(checked) /\ UNCHANGED <<NoHistory, inputVars, selectedUsers>>

Next == ActivateColumn \/ ToggleRow \/ ToggleAll

Spec == Init /\ [][Next]_vars

(***************************************************************************)
(* The same handlers with the history recorded                             *)
(***************************************************************************)
\* The rows of the example scenarios: ids 1, 2, 3 named Bob, Amy, Cid.
ExampleRows == [i \in 1..Len(ExampleNames) |-> [id |-> Num(i), name |-> NameAt(i)]]

RowsOfExample == {ExampleRows[i] : i \in 1..Len(ExampleRows)}

TracedCollections == {ExampleRows} \cup {rows \in RowCollections : Len(rows) < MaxRows}

TracedInit ==
    /\ data \in TracedCollections
    /\ sortConfig = NoSort
    /\ sortedData \in SortOutcomes(data, sortConfig)
    /\ selectedRows = {}
    /\ calls = <<>>
    /\ last = [op |-> "none", arg |-> "none"]
    /\ streak = [key |-> "none", n |-> 0, from |-> NoSort]
    /\ before = [selectedRows |-> {}, op |-> "none"]
    /\ NoInputField
    /\ selectedUsers = <<>>

\* The streak after an activation of columnKey: only activations that pass
\* the sortable test count.
StreakAfter(columnKey) ==
    IF ~IsSortable(columnKey) THEN streak
    ELSE IF streak.key # columnKey
    THEN [key |-> columnKey, n |-> 1, from |-> sortConfig]
    ELSE [streak EXCEPT !.n = IF @ < MaxStreak THEN @ + 1 ELSE @ - 2]

TracedActivateColumn ==
    \E columnKey \in ColumnKeys \cup {UnknownKey} :
        /\ handleSort(columnKey)
        /\ last' = [op |-> "handleSort", arg |-> columnKey]
        /\ streak' = StreakAfter(columnKey)
        /\ UNCHANGED <<before, inputVars, selectedUsers>>

TracedToggleRow ==
    \E i \in 1..Len(sortedData), checked \in BOOLEAN :
        /\ handleRowSelection(KeyAt(sortedData, i), checked)
        /\ last' = [op |-> "handleRowSelection", arg |-> checked]
        /\ UNCHANGED <<streak, before, inputVars, selectedUsers>>

TracedToggleAll ==
    \E checked \in BOOLEAN :
        /\ handleSelectAll(checked)
        /\ last' = [op |-> "handleSelectAll", arg |-> checked]
        /\ UNCHANGED <<streak, before, inputVars, selectedUsers>>

TracedNext == TracedActivateColumn \/ TracedToggleRow \/ TracedToggleAll

TracedSpec == TracedInit /\ [][TracedNext]_vars

(***************************************************************************)
(* What a render shows                                                     *)
(***************************************************************************)
\* An icon that follows the direction alone, whichever column is sorted.
getSortIcon_IgnoresKey(columnKey) ==
    IF ~IsSortable(columnKey) THEN "null"
    ELSE IF sortConfig = NoSort THEN "ChevronsUpDown"
    ELSE IF sortConfig.direction = "asc" THEN "ChevronUp" ELSE "ChevronDown"

\* The icon in the header of the column columnKey.
getSortIcon(columnKey) ==
    IF ~IsSortable(columnKey) THEN "null"
    ELSE IF sortConfig = NoSort \/ sortConfig.key # columnKey THEN "ChevronsUpDown"
    ELSE IF sortConfig.direction = "asc" THEN "ChevronUp" ELSE "ChevronDown"

\* An aria-sort that every sortable header carries while a column is sorted.
ariaSort_OnSortable(columnKey) ==
    IF sortConfig # NoSort /\ IsSortable(columnKey)
    THEN (IF sortConfig.direction = "asc" THEN "ascending" ELSE "descending")
    ELSE "undefined"

\* The aria-sort attribute of the header of the column columnKey.
ariaSort(columnKey) ==
    IF sortConfig # NoSort /\ sortConfig.key = columnKey
    THEN (IF sortConfig.direction = "asc" THEN "ascending" ELSE "descending")
    ELSE "undefined"

\* The number in the footer, which is rendered when it is positive.
footerCount == Cardinality(selectedRows)

(***************************************************************************)
(* The same handlers with their arguments and the selection they found     *)
(* logged                                                                  *)
(***************************************************************************)
\* Rows named Bob, Amy, Cid with any identity fields, and the example rows.
LoggedCollections ==
    {ExampleRows} \cup UNION {IdentityCollections(n) : n \in 0..(MaxRows - 1)}

LoggedInit ==
    /\ data \in LoggedCollections
    /\ sortConfig = NoSort
    /\ sortedData \in SortOutcomes(data, sortConfig)
    /\ selectedRows = {}
    /\ calls = <<>>
    /\ last = [op |-> "none", arg |-> "none"]
    /\ streak = [key |-> "none", n |-> 0, from |-> NoSort]
    /\ before = [selectedRows |-> {}, op |-> "none"]
    /\ NoInputField
    /\ selectedUsers = <<>>

\* The log after the handler op has run with argument arg.
Logged(op, arg) ==
    /\ last' = [op |-> op, arg |-> arg]
    /\ before' = [selectedRows |-> selectedRows, op |-> last.op]
    /\ UNCHANGED <<streak, inputVars, selectedUsers>>

LoggedActivateColumn ==
    \E columnKey \in ColumnKeys \cup {UnknownKey} :
        handleSort(columnKey) /\ Logged("handleSort", columnKey)

LoggedToggleRow ==
    \E i \in 1..Len(sortedData), checked \in BOOLEAN :
        /\ handleRowSelection(KeyAt(sortedData, i), checked)
        /\ Logged("handleRowSelection", [key |-> KeyAt(sortedData, i), checked |-> checked])

LoggedToggleAll ==
    \E checked \in BOOLEAN : handleSelectAll(checked) /\ Logged("handleSelectAll", checked)

LoggedNext == LoggedActivateColumn \/ LoggedToggleRow \/ LoggedToggleAll

LoggedSpec == LoggedInit /\ [][LoggedNext]_vars

(***************************************************************************)
(* The caller replacing the row collection                                 *)
(***************************************************************************)
\* The row collections made of distinct example rows, in any order: the
\* caller filtering, reordering or refetching rows with stable ids.
ReplaceCollections ==
    { rows \in UNION {[1..n -> RowsOfExample] : n \in 0..Len(ExampleRows)} :
        \A i, j \in 1..Len(rows) : rows[i] = rows[j] => i = j }

ReplaceInit ==
    /\ data \in ReplaceCollections
    /\ sortConfig = NoSort
    /\ sortedData \in SortOutcomes(data, sortConfig)
    /\ selectedRows = {}
    /\ calls = <<>>
    /\ last = [op |-> "none", arg |-> "none"]
    /\ streak = [key |-> "none", n |-> 0, from |-> NoSort]
    /\ before = [selectedRows |-> {}, op |-> "none"]
    /\ NoInputField
    /\ selectedUsers = <<>>

\* A render with a new data prop: useMemo computes sortedData again, the
\* component's state stays.
ReplaceData ==
    \E rows \in ReplaceCollections \ {data} :
        /\ data' = rows
        /\ sortedData' \in SortOutcomes(rows, sortConfig)
        /\ calls' = <<>>
        /\ UNCHANGED <<sortConfig, selectedRows>>
        /\ Logged("replaceData", "none")

ReplaceNext == LoggedActivateColumn \/ LoggedToggleRow \/ LoggedToggleAll \/ ReplaceData

ReplaceSpec == ReplaceInit /\ [][ReplaceNext]_vars

(***************************************************************************)
(* The table under a caller that keeps what onRowSelect delivers           *)
(***************************************************************************)
WithSelectionInit ==
    /\ data \in LoggedCollections
    /\ sortConfig = NoSort
    /\ sortedData \in SortOutcomes(data, sortConfig)
    /\ selectedRows = {}
    /\ calls = <<>>
    /\ last = [op |-> "none", arg |-> "none"]
    /\ streak = [key |-> "none", n |-> 0, from |-> NoSort]
    /\ before = [selectedRows |-> {}, op |-> "none"]
    /\ NoInputField
    /\ selectedUsers = <<>>

\* onRowSelect={setSelectedUsers}: the caller keeps the latest list.
setSelectedUsers == selectedUsers' = calls'[Len(calls')]

KeptActivateColumn ==
    \E columnKey \in ColumnKeys \cup {UnknownKey} :
        handleSort(columnKey) /\ UNCHANGED <<NoHistory, inputVars, selectedUsers>>

KeptToggleRow ==
    \E i \in 1..Len(sortedData), checked \in BOOLEAN :
        /\ handleRowSelection(KeyAt(sortedData, i), checked)
        /\ setSelectedUsers
        /\ UNCHANGED <<NoHistory, inputVars>>

KeptToggleAll ==
    \E checked \in BOOLEAN :
        handleSelectAll(checked) /\ setSelectedUsers /\ UNCHANGED <<NoHistory, inputVars>>

WithSelectionNext == KeptActivateColumn \/ KeptToggleRow \/ KeptToggleAll

WithSelectionSpec == WithSelectionInit /\ [][WithSelectionNext]_vars

(***************************************************************************)
(* The row-identity resolver on its own                                    *)
(***************************************************************************)
\* What the rowKey prop can be: a field name or a function.
RowKeyProps == {"id", "name"} \cup RowKeyFunctions

\* Rows named Bob, Amy, Cid whose id is 1, 2, 0, "", null or missing.
KeyCollections ==
    UNION { { [i \in 1..n |-> [id |-> g[i], name |-> NameAt(i)]] :
                g \in [1..n -> IdValues \cup {Null}] } : n \in 1..MaxRows }

KeyInit ==
    /\ data \in KeyCollections
    /\ sortConfig = NoSort
    /\ sortedData = data
    /\ selectedRows = {}
    /\ calls = <<>>
    /\ last = [op |-> "none", arg |-> "none"]
    /\ streak = [key |-> "none", n |-> 0, from |-> NoSort]
    /\ before = [selectedRows |-> {}, op |-> "none"]
    /\ NoInputField
    /\ selectedUsers = <<>>

\* getRowKey is called for the row at position i under the rowKey prop rk.
ResolveKey ==
    \E rk \in RowKeyProps, i \in 1..Len(sortedData) :
        /\ last' = [op |-> "getRowKey",
                    arg |-> [rowKey |-> rk, row |-> sortedData[i], index |-> i - 1,
                             key |-> getRowKeyWith(rk, sortedData[i], i - 1)]]
        /\ UNCHANGED <<data, sortConfig, sortedData, selectedRows, calls, streak, before, inputVars, selectedUsers>>

KeyNext == ResolveKey

KeySpec == KeyInit /\ [][KeyNext]_vars

(***************************************************************************)
(* InputField                                                              *)
(***************************************************************************)
\* The texts an input holds: "", "a" and "ab".
InputTexts == {Str(<<>>), Str(<<10>>), Str(<<10, 11>>)}

\* value is undefined when the caller leaves it out; onChange tells whether
\* the caller passes an onChange handler.
InputProps ==
    [type : {"text", "password"}, value : {Undefined} \cup InputTexts,
     disabled : BOOLEAN, loading : BOOLEAN, clearable : BOOLEAN, onChange : BOOLEAN]

currentValue == IF props.value # Undefined THEN props.value ELSE internalValue

isPassword == props.type = "password"

hasValue == Truthy(currentValue) /\ Len(StringOf(currentValue)) > 0

showClearButton == props.clearable /\ hasValue /\ ~props.disabled /\ ~props.loading

showPasswordToggle == isPassword /\ ~props.disabled /\ ~props.loading

displayType == IF isPassword /\ showPassword THEN "text" ELSE props.type

handleInputChange(newValue) ==
    /\ IF props.value = Undefined
       THEN internalValue' = newValue
       ELSE UNCHANGED internalValue
    /\ emitted' = IF props.onChange THEN <<[fn |-> "onChange", arg |-> newValue]>> ELSE <<>>
    /\ UNCHANGED <<props, showPassword>>

\* The onChange of the input element: {...props} comes after
\* onChange={handleInputChange} and props still holds the caller's onChange,
\* so a caller's handler takes the place of handleInputChange.
inputOnChange(newValue) ==
    IF props.onChange
    THEN /\ emitted' = <<[fn |-> "onChange", arg |-> newValue]>>
         /\ UNCHANGED <<props, showPassword, internalValue>>
    ELSE handleInputChange(newValue)

handleClear ==
    /\ IF props.value = Undefined
       THEN internalValue' = Str(<<>>)
       ELSE UNCHANGED internalValue
    /\ emitted' = <<[fn |-> "onClear", arg |-> Undefined]>>
    /\ UNCHANGED <<props, showPassword>>

togglePasswordVisibility ==
    /\ showPassword' = ~showPassword
    /\ emitted' = <<>>
    /\ UNCHANGED <<props, internalValue>>

tableVars == <<data, sortConfig, sortedData, selectedRows, calls, streak, before, selectedUsers>>

InputInit ==
    /\ props \in InputProps
    /\ showPassword = FALSE
    /\ internalValue = (IF Truthy(props.value) THEN props.value ELSE Str(<<>>))
    /\ emitted = <<>>
    /\ data = <<>>
    /\ sortConfig = NoSort
    /\ sortedData = <<>>
    /\ selectedRows = {}
    /\ calls = <<>>
    /\ last = [op |-> "none", arg |-> "none"]
    /\ streak = [key |-> "none", n |-> 0, from |-> NoSort]
    /\ before = [selectedRows |-> {}, op |-> "none"]
    /\ selectedUsers = <<>>

\* The user edits the text of an enabled input to newValue.
ChangeText ==
    \E newValue \in InputTexts :
        /\ ~props.disabled
        /\ inputOnChange(newValue)
        /\ last' = [op |-> "change", arg |-> newValue]
        /\ UNCHANGED tableVars

\* A click on the clear button, which is rendered when showClearButton.
ClickClear ==
    /\ showClearButton /\ ~props.loading
    /\ handleClear
    /\ last' = [op |-> "handleClear", arg |-> "none"]
    /\ UNCHANGED tableVars

\* A click on the eye button, which is rendered when showPasswordToggle.
ClickPasswordToggle ==
    /\ showPasswordToggle /\ ~props.loading
    /\ togglePasswordVisibility
    /\ last' = [op |-> "togglePasswordVisibility", arg |-> "none"]
    /\ UNCHANGED tableVars

\* The caller renders the field again with another value, disabled or
\* loading; a field stays controlled or uncontrolled and keeps its type.
RenderInput ==
    \E p \in InputProps \ {props} :
        /\ p.type = props.type /\ p.clearable = props.clearable /\ p.onChange = props.onChange
        /\ (p.value = Undefined) <=> (props.value = Undefined)
        /\ props' = p
        /\ emitted' = <<>>
        /\ last' = [op |-> "render", arg |-> "none"]
        /\ UNCHANGED <<showPassword, internalValue, tableVars>>

InputNext == ChangeText \/ ClickClear \/ ClickPasswordToggle \/ RenderInput

InputSpec == InputInit /\ [][InputNext]_vars

(***************************************************************************)
(* Properties                                                              *)
(***************************************************************************)
Ascending(c) == [key |-> c, direction |-> "asc"]

Descending(c) == [key |-> c, direction |-> "desc"]

\* The columns whose descriptor is marked sortable.
SortableKeys == {columns[i].key : i \in {j \in 1..Len(columns) : columns[j].sortable = "true"}}

\* The sort state the cycle prescribes after k activations in a row of c.
CyclePhase(c, k) ==
    IF k % 3 = 1 THEN Ascending(c)
    ELSE IF k % 3 = 2 THEN Descending(c)
    ELSE NoSort

\* C1: after n activations in a row of one sortable column the sort state is
\* the n-th state of the cycle Ascending, Descending, Unsorted, whatever state
\* the activations started from: the third activation gives Unsorted, the
\* fourth Ascending again.
C1_SortCycle ==
    streak.n > 0 =>
        /\ streak.key \in SortableKeys
        /\ sortConfig = CyclePhase(streak.key, streak.n)

\* C1 witness: the fourth activation in a row, started from Unsorted, has
\* brought Ascending back.
C1_FourthActivation ==
    /\ streak.n = 4
    /\ streak.from = NoSort
    /\ sortConfig = Ascending(streak.key)

\* C2: the first activation of a column while another column is sorted, in
\* either direction, gives Ascending of the activated column.
C2_SwitchRestartsAscending ==
    (streak.n = 1 /\ streak.from # NoSort) =>
        /\ streak.from.key # streak.key
        /\ sortConfig = Ascending(streak.key)

\* C2 witness: a column was activated while another one was sorted descending.
C2_SwitchedFromDescending ==
    /\ streak.n = 1
    /\ streak.from = Descending("id")
    /\ sortConfig = Ascending("name")

\* C3: a handleSort step for a key that no descriptor marks sortable changes
\* neither the sort state, the displayed rows nor the selection, and makes no
\* call of onRowSelect.
C3_NonSortableNoOp ==
    [][(last'.op = "handleSort" /\ last'.arg \notin SortableKeys) =>
          /\ sortConfig' = sortConfig
          /\ sortedData' = sortedData
          /\ selectedRows' = selectedRows
          /\ calls' = <<>>]_vars

\* C3 witness: a column without the sortable mark was activated while the
\* table was sorted and rows were selected.
C3_ActivatedNonSortable ==
    /\ last = [op |-> "handleSort", arg |-> "role"]
    /\ sortConfig # NoSort
    /\ selectedRows # {}

RowNames(rows) == [i \in 1..Len(rows) |-> rows[i].name]

\* C4: without a sort state the displayed rows are the row collection in its
\* order; Bob, Amy, Cid show as Amy, Bob, Cid sorted by name ascending and as
\* Cid, Bob, Amy descending.
C4_UnsortedIsInputOrder ==
    /\ sortConfig = NoSort => sortedData = data
    /\ (data = ExampleRows /\ sortConfig = Ascending("name")) =>
           RowNames(sortedData) = <<NameAt(2), NameAt(1), NameAt(3)>>
    /\ (data = ExampleRows /\ sortConfig = Descending("name")) =>
           RowNames(sortedData) = <<NameAt(3), NameAt(1), NameAt(2)>>

\* C4 witness: the third activation in a row of the name column of the
\* example rows restored the input order.
C4_ThirdActivationRestores ==
    /\ data = ExampleRows
    /\ streak = [key |-> "name", n |-> 3, from |-> NoSort]
    /\ sortConfig = NoSort
    /\ RowNames(sortedData) = ExampleNames

\* The value a displayed or supplied row holds in the sorted column.
SortValue(row) == Field(row, sortConfig.key)

\* C5: in Ascending and in Descending state no row whose sort-key value is
\* null or undefined is displayed before a row whose value is present.
C5_NullsLast ==
    sortConfig # NoSort =>
        \A i, j \in 1..Len(sortedData) :
            (i < j /\ IsNullish(SortValue(sortedData[i]))) => IsNullish(SortValue(sortedData[j]))

\* C5 witness: descending state, and a row without value that preceded a row
\* with a value in the input is displayed last.
C5_DescendingAbsentLast ==
    /\ sortConfig = Descending("name")
    /\ Len(data) = 3
    /\ IsNullish(data[1].name)
    /\ ~IsNullish(data[2].name)
    /\ ~IsNullish(data[3].name)
    /\ data[2].name # data[3].name
    /\ sortedData[3] = data[1]

Sign(x) == IF x < 0 THEN -1 ELSE IF x > 0 THEN 1 ELSE 0

RowsOf(rows) == {rows[i] : i \in 1..Len(rows)}

\* C6: under the active sort configuration the comparator is a total order
\* over the rows: the two orders of a pair have opposite signs and the
\* relation is transitive.
C6_TotalOrder ==
    sortConfig # NoSort =>
        /\ \A a, b \in RowsOf(data) :
               Sign(Compare(a, b, sortConfig)) = 0 - Sign(Compare(b, a, sortConfig))
        /\ \A a, b, c \in RowsOf(data) :
               (Compare(a, b, sortConfig) <= 0 /\ Compare(b, c, sortConfig) <= 0)
                   => Compare(a, c, sortConfig) <= 0

\* The rows of a list that are x or y, in their order.
RECURSIVE Only(_, _, _)
Only(rows, x, y) ==
    IF rows = <<>> THEN <<>>
    ELSE (IF Head(rows) \in {x, y} THEN <<Head(rows)>> ELSE <<>>) \o Only(Tail(rows), x, y)

\* C7: in Ascending and in Descending state two rows that the comparator
\* finds equal are displayed in the relative order they have in the input.
C7_Stable ==
    sortConfig # NoSort =>
        \A x, y \in RowsOf(data) :
            Compare(x, y, sortConfig) = 0 => Only(sortedData, x, y) = Only(data, x, y)

\* C8: sorting the displayed rows again with the same configuration, on the
\* engine that produced them, gives the displayed rows.
C8_Idempotent ==
    sortConfig # NoSort =>
        \A eng \in Engines :
            sortedData = ArraySort(eng, data, sortConfig) =>
                ArraySort(eng, sortedData, sortConfig) = sortedData

\* The rows displayed with the selected flag.
FlaggedRows == {sortedData[i] : i \in {j \in 1..Len(sortedData) : isSelected(j)}}

\* C9: a sort activation that reorders the table leaves the rows flagged
\* selected, and the rows selectedRows resolves to, the same logical rows.
C9_SelectionSurvivesSort ==
    [][sortConfig' # sortConfig =>
          /\ FlaggedRows' = FlaggedRows
          /\ RowsOf(FilterSelected(sortedData', selectedRows', 1)) = FlaggedRows]_vars

\* Every row has a truthy value in the identity field, and no two the same.
TruthyDistinctIds ==
    /\ \A i \in 1..Len(data) : Truthy(Field(data[i], rowKey))
    /\ \A i, j \in 1..Len(data) :
           Field(data[i], rowKey) = Field(data[j], rowKey) => i = j

\* C9 restricted to row collections whose identity fields are truthy and
\* pairwise distinct: there the selection does survive every reordering.
C9_SurvivesWithTruthyDistinctIds ==
    [][(TruthyDistinctIds /\ sortConfig' # sortConfig) =>
          /\ FlaggedRows' = FlaggedRows
          /\ RowsOf(FilterSelected(sortedData', selectedRows', 1)) = FlaggedRows]_vars

\* C10: the key resolved for a displayed row is a key the same row has at its
\* position in the row collection, whatever the sort state.
C10_KeyIndependentOfPosition ==
    \A i \in 1..Len(sortedData) :
        \E j \in 1..Len(data) :
            /\ data[j] = sortedData[i]
            /\ KeyAt(data, j) = KeyAt(sortedData, i)

\* The identity keys of the rows on display.
DisplayedKeys == {KeyAt(sortedData, i) : i \in 1..Len(sortedData)}

\* C11: once the header checkbox has been checked, the selection is exactly
\* the set of keys of the rows on display, whatever it held before.
C11_SelectAllScopedToDisplayed ==
    (last.op = "handleSelectAll" /\ last.arg = TRUE)
        => /\ \A i \in 1..Len(sortedData) : KeyAt(sortedData, i) \in selectedRows
           /\ \A k \in selectedRows : \E i \in 1..Len(sortedData) : KeyAt(sortedData, i) = k

\* Select-all on a sorted display dropped a key that names no displayed row.
C11_SelectAllDroppedForeignKey ==
    /\ last.op = "handleSelectAll" /\ last.arg = TRUE
    /\ sortConfig # NoSort
    /\ before.selectedRows \ DisplayedKeys # {}
    /\ selectedRows = DisplayedKeys

\* C12: a row toggle changes the selection by its key only: the key is in
\* the set exactly when the checkbox was checked, and every other key is in
\* the set exactly when it was before.
C12_ToggleChangesOnlyItsKey ==
    last.op = "handleRowSelection"
        => /\ (last.arg.key \in selectedRows) <=> last.arg.checked
           /\ \A k \in (selectedRows \cup before.selectedRows) \ {last.arg.key} :
                  (k \in selectedRows) <=> (k \in before.selectedRows)

\* A row that was selected already was checked again, next to another key.
C12_CheckedAgain ==
    /\ last.op = "handleRowSelection" /\ last.arg.checked
    /\ last.arg.key \in before.selectedRows
    /\ selectedRows = before.selectedRows
    /\ Cardinality(selectedRows) >= 2

\* The positions on display whose row is flagged as selected.
SelectedPositions == {i \in 1..Len(sortedData) : KeyAt(sortedData, i) \in selectedRows}

\* The k-th smallest member of the set S of positions.
NthOf(S, k) == CHOOSE i \in S : Cardinality({j \in S : j < i}) = k - 1

\* The rows on display whose key is selected, in display order.
ResolvedSelection ==
    [k \in 1..Cardinality(SelectedPositions) |-> sortedData[NthOf(SelectedPositions, k)]]

\* C13: the list a row toggle hands to onRowSelect is the displayed list
\* restricted to the rows whose key is selected: each such row once, in
\* display order.
C13_DeliveredIsFilteredDisplay ==
    last.op = "handleRowSelection"
        => Len(calls) = 1 /\ calls[1] = ResolvedSelection

\* A toggle on a display that sorting reordered delivered two of three rows.
C13_DeliveredTwoOfSorted ==
    /\ last.op = "handleRowSelection"
    /\ sortConfig # NoSort /\ sortedData # data
    /\ Len(calls) = 1 /\ Len(calls[1]) = 2 /\ Len(sortedData) = 3

\* C14: the header is all-selected exactly when the selection is non-empty
\* and as large as the display, partially selected exactly when it is
\* non-empty and smaller than the display, and never both.
C14_TriState ==
    LET n == Cardinality(selectedRows)
        m == Len(sortedData)
    IN  /\ isAllSelected <=> (n # 0 /\ n = m)
        /\ isPartiallySelected <=> (0 < n /\ n < m)
        /\ ~(isAllSelected /\ isPartiallySelected)

\* Every row of a full-size sorted display is selected.
C14_AllOfSortedSelected ==
    /\ isAllSelected
    /\ Len(sortedData) = MaxRows
    /\ sortConfig # NoSort
    /\ \A i \in 1..Len(sortedData) : isSelected(i)

SelectionOps == {"handleRowSelection", "handleSelectAll"}

\* C15: each selection handler calls onRowSelect once, with the displayed
\* rows whose key is in the selection the handler leaves; unchecking the
\* header checkbox delivers the empty list.
C15_OneCallWithResolvedRows ==
    last.op \in SelectionOps
        => /\ Len(calls) = 1
           /\ calls[1] = ResolvedSelection
           /\ (last.op = "handleSelectAll" /\ last.arg = FALSE) => calls[1] = <<>>

\* Select-all on a display that sorting reordered delivered the display.
C15_SelectAllDeliveredSorted ==
    /\ last.op = "handleSelectAll" /\ last.arg = TRUE
    /\ sortedData # data
    /\ calls = <<sortedData>>

\* C16: unchecking and then checking the header checkbox over a non-empty
\* display makes the filter of the display by the selection the display
\* itself.
C16_ClearSelectAllRoundTrip ==
    (/\ last.op = "handleSelectAll" /\ last.arg = TRUE
     /\ before.op = "handleSelectAll" /\ before.selectedRows = {}
     /\ Len(sortedData) > 0)
        => FilterSelected(sortedData, selectedRows, 1) = sortedData

\* The round trip ran over a sorted display that has a row without an id.
C16_RoundTripOnSorted ==
    /\ last.op = "handleSelectAll" /\ last.arg = TRUE
    /\ before.op = "handleSelectAll" /\ before.selectedRows = {}
    /\ sortConfig # NoSort /\ sortedData # data
    /\ \E i \in 1..Len(sortedData) : ~Truthy(Field(sortedData[i], rowKey))

\* C18: a sort activation leaves the selection as it was and makes no
\* onRowSelect call; a selection handler leaves the sort state as it was.
C18_SortAndSelectionApart ==
    [][ /\ last'.op = "handleSort" => (selectedRows' = selectedRows /\ calls' = <<>>)
        /\ last'.op \in SelectionOps => sortConfig' = sortConfig ]_vars

\* A sortable column was activated while rows were selected.
C18_SortedWithSelection ==
    /\ last.op = "handleSort" /\ last.arg \in SortableKeys
    /\ before.op \in SelectionOps
    /\ sortConfig # NoSort
    /\ selectedRows # {}

\* The selected keys that name a row on display.
LiveKeys == selectedRows \cap DisplayedKeys

\* C17: after the caller has replaced the rows so that some selected key
\* names no displayed row, the row flags, the list a filter would deliver,
\* the header state and the footer count are what the selected keys that do
\* name a displayed row would give alone.
C17_StaleKeysIgnored ==
    (last.op = "replaceData" /\ selectedRows # LiveKeys)
        => /\ \A i \in 1..Len(sortedData) : isSelected(i) <=> KeyAt(sortedData, i) \in LiveKeys
           /\ FilterSelected(sortedData, selectedRows, 1) = FilterSelected(sortedData, LiveKeys, 1)
           /\ isAllSelected <=> (LiveKeys # {} /\ Cardinality(LiveKeys) = Len(sortedData))
           /\ isPartiallySelected <=> (LiveKeys # {} /\ Cardinality(LiveKeys) < Len(sortedData))
           /\ footerCount = Cardinality(LiveKeys)

\* The columns whose header shows a direction.
DirectedIcons == {c \in ColumnKeys : getSortIcon(c) \in {"ChevronUp", "ChevronDown"}}

DirectedHeaders == {c \in ColumnKeys : ariaSort(c) # "undefined"}

\* Another column was sorted when the activations of this one began.
SecondColumn ==
    sortConfig # NoSort /\ streak.from # NoSort /\ streak.from.key # sortConfig.key

C20_DataNotMutated == [][data' = data]_vars

\* Rows are selected on a display that sorting reordered.
C20_SortedAndSelected ==
    /\ sortConfig # NoSort
    /\ sortedData # data
    /\ selectedRows # {}
    /\ Len(data) = MaxRows

\* C21: in a field without a value prop the displayed value after a change
\* event is the event's text, with or without an onChange handler, and a
\* handler that was passed has been called with it; in a field with a value
\* prop the displayed value is the prop.
C21_ControlledAndUncontrolled ==
    /\ (last.op = "change" /\ props.value = Undefined)
          => /\ currentValue = last.arg
             /\ props.onChange => emitted = <<[fn |-> "onChange", arg |-> last.arg]>>
    /\ props.value # Undefined => currentValue = props.value

\* C30: a password field is masked while showPassword is false, and it is
\* masked whenever the eye button is not offered.
C30_MaskedWithoutToggle ==
    isPassword =>
        /\ ~showPassword => displayType = "password"
        /\ ~showPasswordToggle => displayType = "password"

\* C22, as stated: under the active sort configuration the comparator's
\* result is -1, 0 or 1 for every pair of rows.
C22_ResultIsSign ==
    sortConfig # NoSort =>
        \A a, b \in RowsOf(data) : Compare(a, b, sortConfig) \in {-1, 0, 1}

\* C22, amended: the result for two numbers is their difference, first
\* minus second when ascending and second minus first when descending; the
\* result for every other pair is -1, 0 or 1.
C22_ResultIsSignOrDifference ==
    sortConfig # NoSort =>
        \A a, b \in RowsOf(data) :
            LET x == SortValue(a)
                y == SortValue(b)
                r == Compare(a, b, sortConfig)
            IN  IF x.t = "number" /\ y.t = "number"
                THEN r = (IF sortConfig.direction = "asc" THEN x.n - y.n ELSE y.n - x.n)
                ELSE r \in {-1, 0, 1}

\* Two displayed rows hold numbers that differ by more than 1.
C22_NumbersFarApart ==
    /\ sortConfig # NoSort
    /\ \E a, b \in RowsOf(sortedData) : Compare(a, b, sortConfig) > 1

\* C23: with a field name as rowKey the key is the row's value of the field
\* when that is truthy and the position index when it is 0, "", null or
\* missing; with a function as rowKey the key is the function's result as it
\* is, falsy or not; the default rowKey is the field id.
C23_RowKeyResolver ==
    /\ rowKey = "id"
    /\ last.op = "getRowKey" =>
           LET a == last.arg
               v == Field(a.row, a.rowKey)
           IN  /\ a.rowKey = "fn:id" => a.key = Field(a.row, "id")
               /\ a.rowKey = "fn:index" => a.key = Num(a.index)
               /\ a.rowKey \in {"id", "name"} =>
                      /\ v \in {Num(0), Str(<<>>), Null, Undefined} => a.key = Num(a.index)
                      /\ v \notin {Num(0), Str(<<>>), Null, Undefined} => a.key = v

\* A function's falsy result was used as the key of a row that is not first.
C23_FalsyFunctionResultKept ==
    /\ last.op = "getRowKey"
    /\ last.arg.rowKey = "fn:id"
    /\ last.arg.index > 0
    /\ last.arg.key = Num(0)

\* C24: a header whose column descriptor is not sortable shows no icon; a
\* sortable column that is not the sorted one shows the two-way icon; the
\* sorted column shows the up arrow when ascending and the down arrow when
\* descending; a header has aria-sort exactly when its column is the sorted
\* one.
C24_HeaderDecoration ==
    \A i \in 1..Len(columns) :
        LET col == columns[i]
            active == sortConfig # NoSort /\ sortConfig.key = col.key
            expected == IF col.sortable # "true" THEN "null"
                        ELSE IF ~active THEN "ChevronsUpDown"
                        ELSE IF sortConfig = Ascending(col.key) THEN "ChevronUp"
                        ELSE "ChevronDown"
        IN  /\ getSortIcon(col.key) = expected
            /\ (ariaSort(col.key) # "undefined") <=> active
            /\ active => sortConfig \in {Ascending(col.key), Descending(col.key)}

\* The name column is sorted descending: down arrow there, two-way icon on
\* the id header, no icon on the two headers that are not sortable.
C24_DescendingDecorated ==
    /\ sortConfig = Descending("name")
    /\ getSortIcon("name") = "ChevronDown" /\ ariaSort("name") = "descending"
    /\ getSortIcon("id") = "ChevronsUpDown" /\ ariaSort("id") = "undefined"
    /\ getSortIcon("email") = "null" /\ getSortIcon("role") = "null"

\* How many positions of a row list hold the row r.
Count(rows, r) == Cardinality({i \in 1..Len(rows) : rows[i] = r})

\* C25: the displayed rows are a permutation of the caller's rows: as many
\* rows, and every row as often as the caller supplied it.
C25_DisplayIsPermutation ==
    /\ Len(sortedData) = Len(data)
    /\ \A r \in RowsOf(data) \cup RowsOf(sortedData) : Count(sortedData, r) = Count(data, r)

\* A sort reordered rows whose sorted column holds null, a string and a
\* number.
C25_SortedMixedValues ==
    /\ sortConfig # NoSort
    /\ sortedData # data
    /\ \E i, j, k \in 1..Len(data) :
           /\ SortValue(data[i]) = Null
           /\ SortValue(data[j]).t = "string"
           /\ SortValue(data[k]).t = "number"

\* C26: after the header checkbox has been checked over a non-empty display
\* the header is all-selected, not partially selected, and every displayed
\* row is flagged.
C26_SelectAllSelectsAll ==
    (last.op = "handleSelectAll" /\ last.arg = TRUE /\ Len(sortedData) > 0)
        => /\ isAllSelected
           /\ ~isPartiallySelected
           /\ \A i \in 1..Len(sortedData) : isSelected(i)

\* C27: the number in the footer is the number of displayed rows that are
\* flagged as selected.
C27_FooterCountsFlaggedRows ==
    footerCount = Cardinality({i \in 1..Len(sortedData) : isSelected(i)})

\* C28: the rows of the list the caller received latest are the displayed
\* rows that are flagged as selected.
C28_CallerInSync == RowsOf(selectedUsers) = FlaggedRows

\* C28 for row collections whose identity fields are truthy and pairwise
\* distinct: there the caller's list and the flags agree in every state.
C28_InSyncWithTruthyDistinctIds == TruthyDistinctIds => RowsOf(selectedUsers) = FlaggedRows

\* No two rows hold the same identity-field value; a row may hold none.
PresentIdsDistinct ==
    \A i, j \in 1..Len(data) :
        (/\ ~IsNullish(Field(data[i], rowKey))
         /\ Field(data[i], rowKey) = Field(data[j], rowKey)) => i = j

\* C29: when the identity-field values present in the row collection are
\* pairwise distinct, no two displayed rows resolve to the same key.
C29_DisplayedKeysDistinct ==
    PresentIdsDistinct =>
        \A i, j \in 1..Len(sortedData) : KeyAt(sortedData, i) = KeyAt(sortedData, j) => i = j

====
